---- MODULE Spec2Model ----
(***************************************************************************)
(* A model of paper_generator.Report (src/paper_generator/generator.py):   *)
(* the section registry (self.sections), the outline (self.outline), the   *)
(* keyword bag (self.args), the glossary (self.glossary, self.kinds) and   *)
(* the pylatex document the report fills (self.doc).  Every method is an   *)
(* operator from the object to the object it leaves behind, with the       *)
(* exception it raised, if any, in field err; every action is one call of  *)
(* a method, on the report or on a second report built beside it.          *)
(***************************************************************************)
EXTENDS Integers, Sequences, FiniteSets, TLC

VARIABLES
    args,       \* self.args: the keyword bag, with 'headers' and 'heads'
    sections,   \* self.sections: title -> body
    outline,    \* self.outline: list of titles
    doc,        \* self.doc: what was appended to packages, preamble and body
    glossary,   \* self.glossary: key -> [kind, body]
    kinds,      \* self.kinds: the keys of the dict, in iteration order
    other,      \* a second Report, once constructed, and whether its
                \* 'packages' is the list object the first one holds
    last,       \* the last call: method name and arguments
    err,        \* the exception the last call raised, or NoError
    appended,   \* history: per title, the body it was created with followed
                \* by every content successfully appended, in call order
    log         \* history: the phases run so far (initialize, prepare,
                \* generate), each with the exception it ended in

vars == <<args, sections, outline, doc, glossary, kinds, other,
          last, err, appended, log>>

-----------------------------------------------------------------------------
(* Bounds of the model.                                                    *)

MaxBodyLen == 2     \* longest section body built by appending
MaxOutlineLen == 3  \* longest outline SpecOutline lets a creation build
MaxPhaseCalls == 3  \* how many phases (initialize, prepare, generate) run

-----------------------------------------------------------------------------
(* Python values and exceptions.                                           *)

PyNone == "None"
NoError == "ok"
DuplicateSection == "Exception: A section with the given title already exists."
UnknownSection == "KeyError: That section does not exist."
IndexError == "IndexError"
KeyError == "KeyError"
OutlineNotSet == "Exception: Outline file not set."
GlossaryNotSet == "Exception: Glossary file not set."
NotImplemented == "NotImplementedError"

\* bool(v) for the values the model uses: None and '' are false.
Truthy(v) == v # PyNone /\ v # ""

Raise(self, e) == [self EXCEPT !.err = e]

\* No exception is propagating: the next statement runs.
Ok(self) == self.err = NoError

\* A Python list index i is valid on a list of length n when -n <= i < n;
\* a negative index counts from the end.
PyIndexOK(i, n) == -n <= i /\ i < n
PyIndex(i, n) == IF i < 0 THEN i + n ELSE i

\* list(range(n)) as a sequence (position k holds k-1).
PyRange(n) == [k \in 1..n |-> k - 1]

\* The list after list.pop(i), for a valid i.
PyPopRest(s, i) ==
    LET p == PyIndex(i, Len(s)) + 1
    IN  SubSeq(s, 1, p - 1) \o SubSeq(s, p + 1, Len(s))

\* The element list.pop(i) returns, for a valid i.
PyPopItem(s, i) == s[PyIndex(i, Len(s)) + 1]

\* The list after list.insert(i, x): a negative i counts from the end and
\* the position is clipped to 0..len.
PyInsert(s, i, x) ==
    LET j == IF i < 0 THEN i + Len(s) ELSE i
        p == IF j < 0 THEN 0 ELSE IF j > Len(s) THEN Len(s) ELSE j
    IN  SubSeq(s, 1, p) \o <<x>> \o SubSeq(s, p + 1, Len(s))

Range(s) == {s[k] : k \in DOMAIN s}

\* The state of a fresh Report: __init__ without the keyword handling.
EmptyDoc == [packages |-> <<>>, preamble |-> <<>>, body |-> <<>>, pdf |-> PyNone]
NoSections == [t \in {} |-> ""]
NoGlossary == [key \in {} |-> [kind |-> "", body |-> ""]]
NoKinds == <<>>

Headers == <<"lhead", "chead", "rhead", "lfoot", "cfoot", "rfoot">>

\* dict.get(key): the value, or None when the key is absent.
Get(d, key) == IF key \in DOMAIN d THEN d[key] ELSE PyNone

\* d[key] = value on a dict held as a function.
Put(d, key, value) ==
    [k \in DOMAIN d \cup {key} |-> IF k = key THEN value ELSE d[k]]

\* Keyword arguments collected into one dict: the items of g over those
\* of f.
Merge(f, g) ==
    [k \in DOMAIN f \cup DOMAIN g |-> IF k \in DOMAIN g THEN g[k] ELSE f[k]]

\* Report.__init__(**kwargs).  The constructor raises KeyError when bib_file
\* is given without packages; such keyword bags build no object and are not
\* among the ones the model draws.
Construct(kwargs) ==
    LET a1 == Put(kwargs, "headers", Headers)
        a2 == Put(a1, "heads",
                  [pos \in Range(Headers) |-> Get(a1, pos)])
        a3 == IF "bib_file" \in DOMAIN a2
              THEN [a2 EXCEPT !.packages = Append(@, "biblatex")]
              ELSE a2
    IN  [args |-> a3, sections |-> NoSections, outline |-> <<>>,
         doc |-> EmptyDoc, glossary |-> NoGlossary, kinds |-> NoKinds,
         err |-> NoError]

-----------------------------------------------------------------------------
(* The section registry.                                                   *)

\* new_section without the membership test: a repeated title overwrites.
new_section_overwrite(self, title, content) ==
    [self EXCEPT !.sections = Put(@, title, content),
                 !.outline = Append(@, title)]

\* Report.new_section(title, content)
new_section(self, title, content) ==
    IF title \in DOMAIN self.sections
    THEN Raise(self, DuplicateSection)
    ELSE [self EXCEPT !.sections = Put(@, title, content),
                      !.outline = Append(@, title)]

\* add_to_section that keeps an empty body empty (the else branch lost).
add_to_section_noset(self, title, content) ==
    IF title \notin DOMAIN self.sections
    THEN Raise(self, UnknownSection)
    ELSE LET section == self.sections[title]
         IN  [self EXCEPT !.sections[title] =
                  IF Truthy(section) THEN section \o content ELSE section]

\* add_to_section that registers a missing title instead of raising.
add_to_section_create(self, title, content) ==
    IF title \notin DOMAIN self.sections
    THEN [self EXCEPT !.sections = Put(@, title, content),
                      !.outline = Append(@, title)]
    ELSE LET section == self.sections[title]
         IN  [self EXCEPT !.sections[title] =
                  IF Truthy(section) THEN section \o content ELSE content]

\* add_to_section that stores the content in place of the body.
add_to_section_replace(self, title, content) ==
    IF title \notin DOMAIN self.sections
    THEN Raise(self, UnknownSection)
    ELSE [self EXCEPT !.sections[title] = content]

\* Report.add_to_section(title, content)
add_to_section(self, title, content) ==
    IF title \notin DOMAIN self.sections
    THEN Raise(self, UnknownSection)
    ELSE LET section == self.sections[title]
         IN  [self EXCEPT !.sections[title] =
                  IF Truthy(section) THEN section \o content ELSE content]

\* Report.sections_from_dict(sections): the dict is given as the sequence of
\* its items in iteration order; an exception ends the loop where it is.
RECURSIVE sections_from_dict(_, _)
sections_from_dict(self, items) ==
    IF items = <<>> THEN self
    ELSE LET r == new_section(self, Head(items)[1], Head(items)[2])
         IN  IF r.err # NoError THEN r
             ELSE sections_from_dict(r, Tail(items))

-----------------------------------------------------------------------------
(* The outline.                                                            *)

\* reorder_outline that also forgets the sections the new outline lacks.
reorder_outline_prune(self, ordering) ==
    LET n == Len(self.outline)
    IN  IF \E k \in DOMAIN ordering : ~PyIndexOK(ordering[k], n)
        THEN Raise(self, IndexError)
        ELSE LET new == [k \in DOMAIN ordering |->
                            self.outline[PyIndex(ordering[k], n) + 1]]
             IN  [self EXCEPT !.outline = new,
                              !.sections = [t \in DOMAIN @ \cap Range(new)
                                               |-> @[t]]]

\* Report.reorder_outline(ordering): a list comprehension indexing the
\* outline; an index outside -n..n-1 raises IndexError before the
\* assignment.
reorder_outline(self, ordering) ==
    LET n == Len(self.outline)
    IN  IF \E k \in DOMAIN ordering : ~PyIndexOK(ordering[k], n)
        THEN Raise(self, IndexError)
        ELSE [self EXCEPT !.outline =
                 [k \in DOMAIN ordering |->
                     self.outline[PyIndex(ordering[k], n) + 1]]]

\* move_section that exchanges the two positions instead of relocating one.
move_section_swap(self, currentpos, newpos) ==
    LET n == Len(self.outline)
        c == PyIndex(currentpos, n)
        p == IF newpos >= n THEN n - 1 ELSE PyIndex(newpos, n)
    IN  IF ~PyIndexOK(currentpos, n)
        THEN Raise(self, IndexError)
        ELSE reorder_outline(self,
                 [k \in 1..n |-> IF k = c + 1 THEN p
                                 ELSE IF k = p + 1 THEN c ELSE k - 1])

\* Report.move_section(currentpos, newpos)
move_section(self, currentpos, newpos) ==
    LET n == Len(self.outline)
        ordering == PyRange(n)
    IN  IF ~PyIndexOK(currentpos, n)
        THEN Raise(self, IndexError)      \* ordering.pop(currentpos)
        ELSE LET item == PyPopItem(ordering, currentpos)
                 rest == PyPopRest(ordering, currentpos)
             IN  IF newpos >= n
                 THEN reorder_outline(self, Append(rest, item))
                 ELSE reorder_outline(self, PyInsert(rest, newpos, item))

-----------------------------------------------------------------------------
(* Assembly: initialize, prepare, generate.                                *)

PageCountToken == "Page~\\thepage\\ of~\\pageref{LastPage}"

Command(name, argument) == [kind |-> "command", name |-> name, text |-> argument]
SectionNode(title, body) == [kind |-> "section", name |-> title, text |-> body]

\* Report._has_headers()
has_headers(self) ==
    \E pos \in DOMAIN self.args.heads : Truthy(self.args.heads[pos])

\* Report._check_fancyhdr(); a missing 'packages' or 'count_pos' keyword is
\* a KeyError at the place it is read.
check_fancyhdr(self) ==
    IF "packages" \notin DOMAIN self.args THEN Raise(self, KeyError)
    ELSE LET s1 == IF "fancyhdr" \notin Range(self.args.packages)
                   THEN [self EXCEPT !.args.packages = Append(@, "fancyhdr")]
                   ELSE self
         IN  IF "count_pos" \notin DOMAIN s1.args THEN Raise(s1, KeyError)
             ELSE IF s1.args.count_pos \in Range(s1.args.headers)
             THEN LET s2 == IF "lastpage" \notin Range(s1.args.packages)
                            THEN [s1 EXCEPT !.args.packages =
                                               Append(@, "lastpage")]
                            ELSE s1
                  IN  [s2 EXCEPT !.args.heads[s2.args.count_pos] =
                                     PageCountToken]
             ELSE s1

\* The commands _add_headers appends for the slots from position k on, in
\* the order of the heads dict (the order of 'headers').
RECURSIVE HeadCommands(_, _)
HeadCommands(heads, k) ==
    IF k > Len(Headers) THEN <<>>
    ELSE (IF Truthy(heads[Headers[k]])
          THEN <<Command(Headers[k], heads[Headers[k]])>>
          ELSE <<>>) \o HeadCommands(heads, k + 1)

\* Report._add_headers()
add_headers(self) ==
    [self EXCEPT !.doc.preamble =
        @ \o <<Command("pagestyle", "fancy"), Command("fancyhf", " ")>>
          \o HeadCommands(self.args.heads, 1)]

\* Report._load_packages()
load_packages(self) ==
    IF "packages" \notin DOMAIN self.args THEN Raise(self, KeyError)
    ELSE [self EXCEPT !.doc.packages = @ \o self.args.packages]

\* Report._gen_toc()
gen_toc(self) ==
    [self EXCEPT !.doc.body = Append(@, Command("tableofcontents", ""))]

\* Report._gen_title(): each command is appended as soon as its argument
\* has been read.
gen_title(self) ==
    IF "title" \notin DOMAIN self.args THEN Raise(self, KeyError)
    ELSE LET s1 == [self EXCEPT !.doc.preamble =
                       Append(@, Command("title", self.args.title))]
         IN  IF "author" \notin DOMAIN s1.args THEN Raise(s1, KeyError)
             ELSE [s1 EXCEPT
                     !.doc.preamble =
                         @ \o <<Command("author", s1.args.author),
                                Command("date", "\\today")>>,
                     !.doc.body = Append(@, Command("maketitle", ""))]

\* str.strip() for the whitespace the model's files hold.
Whitespace == {" ", "\n", "\t"}

RECURSIVE lstrip(_)
lstrip(s) ==
    IF Len(s) > 0 /\ SubSeq(s, 1, 1) \in Whitespace
    THEN lstrip(SubSeq(s, 2, Len(s)))
    ELSE s

RECURSIVE rstrip(_)
rstrip(s) ==
    IF Len(s) > 0 /\ SubSeq(s, Len(s), Len(s)) \in Whitespace
    THEN rstrip(SubSeq(s, 1, Len(s) - 1))
    ELSE s

strip(s) == rstrip(lstrip(s))

\* The files on disk: path -> the lines readlines() returns.
Files ==
    [p \in {"./outline.txt", "./blank.txt", "./blanks.txt", "./empty.txt"} |->
        CASE p = "./outline.txt" -> <<"A\n", " B \n">>
          [] p = "./blank.txt" -> <<"A\n", "\n", "B\n">>
          [] p = "./blanks.txt" -> <<"A\n", "\n", "B\n", "  \n">>
          [] p = "./empty.txt" -> <<>>]

\* The loop of _load_outline over the lines read.
RECURSIVE load_lines(_, _)
load_lines(self, lines) ==
    IF lines = <<>> THEN self
    ELSE LET r == new_section(self, strip(Head(lines)), "")
         IN  IF r.err # NoError THEN r ELSE load_lines(r, Tail(lines))

\* Report._load_outline(); the model's outline_file always names a file of
\* Files, so open() does not fail.
load_outline(self) ==
    IF ~Truthy(self.args.outline_file) THEN Raise(self, OutlineNotSet)
    ELSE IF "root" \notin DOMAIN self.args THEN Raise(self, KeyError)
    ELSE load_lines(self, Files[self.args.root \o self.args.outline_file])

\* The statements of Report.initialize(), each run on the object the
\* statement before it left, and skipped once an exception propagates.
init_fancyhdr(self) ==
    IF has_headers(self) THEN check_fancyhdr(self) ELSE self

init_packages(self) ==
    IF Ok(self) THEN load_packages(self) ELSE self

init_headers(self) ==
    IF Ok(self) /\ has_headers(self) THEN add_headers(self) ELSE self

init_toc(self) ==
    IF ~Ok(self) THEN self
    ELSE IF "toc" \notin DOMAIN self.args THEN Raise(self, KeyError)
    ELSE IF self.args.toc = TRUE THEN gen_toc(self) ELSE self

init_title(self) ==
    IF Ok(self) /\ "hide_title" \notin DOMAIN self.args
    THEN gen_title(self) ELSE self

init_outline(self) ==
    IF Ok(self) /\ "outline_file" \in DOMAIN self.args
    THEN load_outline(self) ELSE self

\* Report.initialize()
initialize(self) ==
    init_outline(init_title(init_toc(init_headers(init_packages(
        init_fancyhdr(self))))))

\* Report._insert_sections(): one Section node per outline entry, holding
\* the body read from self.sections at that moment.
RECURSIVE insert_sections(_, _)
insert_sections(self, titles) ==
    IF titles = <<>> THEN self
    ELSE IF Head(titles) \notin DOMAIN self.sections THEN Raise(self, KeyError)
    ELSE insert_sections(
             [self EXCEPT !.doc.body =
                 Append(@, SectionNode(Head(titles),
                                       self.sections[Head(titles)]))],
             Tail(titles))

\* Report.prepare()
prepare(self) == insert_sections(self, self.outline)

\* Report.generate(clean_tex): the PDF is written by pylatex; the model keeps
\* the path it is asked to write.
generate(self) ==
    IF "root" \notin DOMAIN self.args \/ "title" \notin DOMAIN self.args
    THEN Raise(self, KeyError)
    ELSE [self EXCEPT !.doc.pdf = self.args.root \o "reports/" \o self.args.title]

\* The calls of Report.auto_generate after the first, each skipped once an
\* exception propagates.
then_prepare(self) == IF Ok(self) THEN prepare(self) ELSE self
then_generate(self) == IF Ok(self) THEN generate(self) ELSE self

\* Report.auto_generate(clean_tex)
auto_generate(self) == then_generate(then_prepare(initialize(self)))

-----------------------------------------------------------------------------
(* The glossary: _load_glossary and its regular expression.                *)

\* The text t stands in s at position i (counted from 1).
StartsWith(s, i, t) ==
    i + Len(t) - 1 <= Len(s) /\ SubSeq(s, i, i + Len(t) - 1) = t

\* The first position from `from` on where t stands in s, or 0.
RECURSIVE Find(_, _, _)
Find(s, t, from) ==
    IF from + Len(t) - 1 > Len(s) THEN 0
    ELSE IF StartsWith(s, from, t) THEN from
    ELSE Find(s, t, from + 1)

\* str.lower() on ASCII letters.
UpperCase == "ABCDEFGHIJKLMNOPQRSTUVWXYZ"
LowerCase == "abcdefghijklmnopqrstuvwxyz"

RECURSIVE lower(_)
lower(s) ==
    IF s = "" THEN ""
    ELSE LET c == SubSeq(s, 1, 1)
             k == Find(UpperCase, c, 1)
         IN  (IF k = 0 THEN c ELSE SubSeq(LowerCase, k, k))
                 \o lower(SubSeq(s, 2, Len(s)))

NoMatch == [found |-> FALSE]

\* The match of  kind \s (.+?) \n (.+?) END  (re.S) starting at position i.
\* The whitespace follows the kind; the lazy label takes at least one
\* character and ends at the first newline after it; the lazy body takes at
\* least one character and ends at the first END after it.
MatchAt(data, i, kind) ==
    LET w == i + Len(kind)
        nl == Find(data, "\n", w + 2)
        end == IF nl = 0 THEN 0 ELSE Find(data, "END", nl + 2)
    IN  IF /\ StartsWith(data, i, kind)
           /\ w <= Len(data)
           /\ SubSeq(data, w, w) \in Whitespace
           /\ nl # 0
           /\ end # 0
        THEN [found |-> TRUE, kind |-> kind,
              label |-> SubSeq(data, w + 1, nl - 1),
              body |-> SubSeq(data, nl + 1, end - 1),
              next |-> end + 3]
        ELSE NoMatch

\* The alternatives of the group '(' + '|'.join(kinds) + ')': the kinds in
\* the order of the dict, and the empty string alone when there is no kind.
KindAlternatives(ks) == IF ks = <<>> THEN <<"">> ELSE ks

\* The match at position i of the first alternative, from the k-th on, that
\* matches there.
RECURSIVE FirstKind(_, _, _, _)
FirstKind(data, i, alts, k) ==
    IF k > Len(alts) THEN NoMatch
    ELSE IF MatchAt(data, i, alts[k]).found THEN MatchAt(data, i, alts[k])
    ELSE FirstKind(data, i, alts, k + 1)

\* re.findall(entry_format, data, re.S) from position i on: the leftmost
\* matches, none overlapping.
RECURSIVE findall(_, _, _)
findall(data, alts, i) ==
    IF i > Len(data) THEN <<>>
    ELSE IF FirstKind(data, i, alts, 1).found
    THEN <<FirstKind(data, i, alts, 1)>>
             \o findall(data, alts, FirstKind(data, i, alts, 1).next)
    ELSE findall(data, alts, i + 1)

\* The dict comprehension of _load_glossary: a later entry replaces an
\* earlier one with the same key.
RECURSIVE GlossaryOf(_, _)
GlossaryOf(entries, prefix) ==
    IF entries = <<>> THEN NoGlossary
    ELSE LET e == entries[Len(entries)]
         IN  Put(GlossaryOf(SubSeq(entries, 1, Len(entries) - 1), prefix),
                 prefix \o ":" \o strip(e.label),
                 [kind |-> e.kind, body |-> strip(e.body)])

\* The glossary files on disk, each a sequence of blocks
\* '<kind> <label>\n<body>END' one per line: path -> the blocks.
GlossaryBlocks ==
    [p \in {"./gloss.txt", "./two.txt", "./none.txt"} |->
        CASE p = "./gloss.txt" ->
                <<[kind |-> "lemma", label |-> "foo", body |-> "bar baz\n"]>>
          [] p = "./two.txt" ->
                <<[kind |-> "theorem", label |-> "T1 ", body |-> "x>0\ny>0 "],
                  [kind |-> "lemma", label |-> "l1", body |-> "z"]>>
          [] p = "./none.txt" -> <<>>]

\* The text of a sequence of blocks.
RECURSIVE BlockText(_)
BlockText(blocks) ==
    IF blocks = <<>> THEN ""
    ELSE Head(blocks).kind \o " " \o Head(blocks).label \o "\n"
             \o Head(blocks).body \o "END\n" \o BlockText(Tail(blocks))

\* What reader.read() returns for a glossary file.
Texts == [p \in DOMAIN GlossaryBlocks |-> BlockText(GlossaryBlocks[p])]

\* The glossary built from the entries found; 'refs' is read once per
\* entry, so only when there is one.
build_glossary(self, entries) ==
    IF entries # <<>> /\ "refs" \notin DOMAIN self.args
    THEN Raise(self, KeyError)
    ELSE [self EXCEPT !.glossary =
             IF entries = <<>> THEN NoGlossary
             ELSE GlossaryOf(entries, lower(self.args.refs))]

\* Report._load_glossary(); the model's glossary_file, when set, names a
\* file of Texts, so open() does not fail.
load_glossary(self) ==
    IF "glossary_file" \notin DOMAIN self.args THEN Raise(self, KeyError)
    ELSE IF ~Truthy(self.args.glossary_file) THEN Raise(self, GlossaryNotSet)
    ELSE IF "root" \notin DOMAIN self.args THEN Raise(self, KeyError)
    ELSE build_glossary(self,
             findall(Texts[self.args.root \o self.args.glossary_file],
                     KindAlternatives(self.kinds), 1))

-----------------------------------------------------------------------------
(* Sections from files: load_section_from_file and _parse_refs.            *)

\* The section files on disk: path -> what reader.read() returns.
SectionFiles ==
    [p \in {"plain.txt", "token.txt"} |->
        IF p = "plain.txt" THEN "a" ELSE "[Sec:zz]"]

\* Report._parse_refs(content): the object it leaves and the value it
\* returns.  The method is a stub that raises.
parse_refs(self, content) ==
    [self |-> Raise(self, NotImplemented), value |-> PyNone]

\* The rest of load_section_from_file, after content = _parse_refs(data).
store_section(p, title) ==
    IF ~Ok(p.self) THEN p.self
    ELSE IF title \in DOMAIN p.self.sections
    THEN add_to_section(p.self, title, p.value)
    ELSE new_section(p.self, title, p.value)

\* Report.load_section_from_file(title, filename); the model's filename
\* names a file of SectionFiles, so open() does not fail.
load_section_from_file(self, title, filename) ==
    store_section(parse_refs(self, SectionFiles[filename]), title)

-----------------------------------------------------------------------------
(* Actions: one call of a public method each.                              *)

Self == [args |-> args, sections |-> sections, outline |-> outline,
         doc |-> doc, glossary |-> glossary, kinds |-> kinds,
         err |-> NoError]

\* No second Report has been constructed.
NoOther == [made |-> FALSE, shares |-> FALSE]

\* The second Report after a call that left the first one as r: when both
\* were given the same list as 'packages', what the call appended to
\* r.args['packages'] is appended to the list the second one holds.
Aliased(o, r) ==
    IF o.made /\ o.shares
    THEN [o EXCEPT !.args.packages = r.args.packages]
    ELSE o

Commit(r, call) ==
    /\ args' = r.args
    /\ sections' = r.sections
    /\ outline' = r.outline
    /\ doc' = r.doc
    /\ glossary' = r.glossary
    /\ kinds' = r.kinds
    /\ other' = Aliased(other, r)
    /\ err' = r.err
    /\ last' = call

\* The history of bodies after a call that left registry secs: a title
\* registered by the call starts with the body the call gave it, created[t].
Created(secs, created) ==
    [t \in DOMAIN secs |->
        IF t \in DOMAIN appended THEN appended[t] ELSE created[t]]

\* The keys of the dict given as items, in iteration order.
Titles_of(items) == [k \in DOMAIN items |-> items[k][1]]

\* The body the dict given as items holds for title t.
ItemBody(items, t) ==
    LET k == CHOOSE j \in DOMAIN items : items[j][1] = t IN items[k][2]

\* A log entry: the phase, the exception it ended in, and whether it took
\* effect (generate hands the document to pdflatex whenever it is reached;
\* the other phases take effect when they change the object).
Phase(name, before, r) ==
    [phase |-> name, err |-> r.err,
     effect |-> \/ name = "generate" /\ r.err = NoError
                \/ r.doc # before.doc
                \/ r.sections # before.sections
                \/ r.args # before.args]

NewSection(title, content) ==
    \E r \in {new_section(Self, title, content)} :
        /\ Commit(r, [op |-> "new_section", title |-> title,
                      content |-> content])
        /\ appended' = Created(r.sections, [t \in {title} |-> content])
        /\ UNCHANGED log

AddToSection(title, content) ==
    \E r \in {add_to_section(Self, title, content)} :
        /\ title \in DOMAIN sections =>
               Len(sections[title]) + Len(content) <= MaxBodyLen
        /\ Commit(r, [op |-> "add_to_section", title |-> title,
                      content |-> content])
        /\ appended' = IF r.err = NoError
                       THEN [appended EXCEPT ![title] = @ \o content]
                       ELSE appended
        /\ UNCHANGED log

SectionsFromDict(items) ==
    \E r \in {sections_from_dict(Self, items)} :
        /\ Commit(r, [op |-> "sections_from_dict", items |-> items])
        /\ appended' = Created(r.sections,
                               [t \in Range(Titles_of(items)) |->
                                   ItemBody(items, t)])
        /\ UNCHANGED log

MoveSection(currentpos, newpos) ==
    \E r \in {move_section(Self, currentpos, newpos)} :
        /\ Commit(r, [op |-> "move_section", currentpos |-> currentpos,
                      newpos |-> newpos])
        /\ UNCHANGED <<appended, log>>

ReorderOutline(ordering) ==
    \E r \in {reorder_outline(Self, ordering)} :
        /\ Commit(r, [op |-> "reorder_outline", ordering |-> ordering])
        /\ UNCHANGED <<appended, log>>

Initialize ==
    \E r \in {initialize(Self)} :
        /\ Len(log) < MaxPhaseCalls
        /\ Commit(r, [op |-> "initialize"])
        /\ appended' = Created(r.sections, [t \in DOMAIN r.sections |-> ""])
        /\ log' = Append(log, Phase("initialize", Self, r))

Prepare ==
    \E r \in {prepare(Self)} :
        /\ Len(log) < MaxPhaseCalls
        /\ Commit(r, [op |-> "prepare"])
        /\ log' = Append(log, Phase("prepare", Self, r))
        /\ UNCHANGED appended

Generate ==
    \E r \in {generate(Self)} :
        /\ Len(log) < MaxPhaseCalls
        /\ Commit(r, [op |-> "generate"])
        /\ log' = Append(log, Phase("generate", Self, r))
        /\ UNCHANGED appended

AutoGenerate ==
    \E i \in {initialize(Self)} :
    \E p \in {then_prepare(i)} :
    \E g \in {then_generate(p)} :
        /\ Len(log) + 3 <= MaxPhaseCalls
        /\ g = auto_generate(Self)
        /\ Commit(g, [op |-> "auto_generate"])
        /\ appended' = Created(g.sections, [t \in DOMAIN g.sections |-> ""])
        /\ log' = log \o <<Phase("initialize", Self, i)>>
                      \o (IF i.err = NoError
                          THEN <<Phase("prepare", i, p)>> ELSE <<>>)
                      \o (IF p.err = NoError
                          THEN <<Phase("generate", p, g)>> ELSE <<>>)

\* report.kinds = {...}: the caller sets the recognised kinds.
SetKinds(ks) ==
    \E r \in {[Self EXCEPT !.kinds = ks]} :
        /\ Commit(r, [op |-> "kinds", kinds |-> ks])
        /\ UNCHANGED <<appended, log>>

LoadGlossary ==
    \E r \in {load_glossary(Self)} :
        /\ Commit(r, [op |-> "load_glossary"])
        /\ UNCHANGED <<appended, log>>

LoadSectionFromFile(title, filename) ==
    \E p \in {parse_refs(Self, SectionFiles[filename])} :
    \E r \in {store_section(p, title)} :
        /\ r = load_section_from_file(Self, title, filename)
        /\ Commit(r, [op |-> "load_section_from_file", title |-> title,
                      filename |-> filename])
        /\ appended' = IF r.err # NoError THEN appended
                       ELSE IF title \in DOMAIN appended
                       THEN [appended EXCEPT ![title] = @ \o p.value]
                       ELSE Created(r.sections, [t \in {title} |-> p.value])
        /\ UNCHANGED log

\* The second Report, as the object its methods run on.
Other ==
    [args |-> other.args, sections |-> other.sections,
     outline |-> other.outline, doc |-> other.doc,
     glossary |-> other.glossary, kinds |-> other.kinds, err |-> NoError]

\* The second Report after one of its methods left it as r, having made
\* `phases` calls of initialize or prepare so far.  When it shares its
\* 'packages' list with the first Report, what the call appended to the
\* list shows in the first Report's args.
CommitOther(r, phases, call) ==
    /\ other' = [made |-> TRUE, shares |-> other.shares, phases |-> phases,
                 args |-> r.args, sections |-> r.sections,
                 outline |-> r.outline, doc |-> r.doc,
                 glossary |-> r.glossary, kinds |-> r.kinds]
    /\ args' = IF other.shares
               THEN [args EXCEPT !.packages = r.args.packages]
               ELSE args
    /\ err' = r.err
    /\ last' = call
    /\ UNCHANGED <<sections, outline, doc, glossary, kinds, appended, log>>

\* Report(**kwargs) a second time; with shares, the caller passes as
\* packages the list object it gave the first Report.
ConstructOther(kwargs, shares) ==
    /\ ~other.made
    /\ \E r \in {Construct(IF shares
                           THEN Merge(kwargs, [packages |-> args.packages])
                           ELSE kwargs)} :
          /\ other' = [made |-> TRUE, shares |-> shares, phases |-> 0,
                       args |-> r.args, sections |-> r.sections,
                       outline |-> r.outline, doc |-> r.doc,
                       glossary |-> r.glossary, kinds |-> r.kinds]
          /\ args' = IF shares
                     THEN [args EXCEPT !.packages = r.args.packages]
                     ELSE args
          /\ err' = r.err
          /\ last' = [op |-> "other.__init__", shares |-> shares]
          /\ UNCHANGED <<sections, outline, doc, glossary, kinds,
                         appended, log>>

OtherNewSection(title, content) ==
    /\ other.made
    /\ \E r \in {new_section(Other, title, content)} :
          CommitOther(r, other.phases, [op |-> "other.new_section"])

OtherAddToSection(title, content) ==
    /\ other.made
    /\ title \in DOMAIN other.sections =>
           Len(other.sections[title]) + Len(content) <= MaxBodyLen
    /\ \E r \in {add_to_section(Other, title, content)} :
          CommitOther(r, other.phases, [op |-> "other.add_to_section"])

OtherMoveSection(currentpos, newpos) ==
    /\ other.made
    /\ \E r \in {move_section(Other, currentpos, newpos)} :
          CommitOther(r, other.phases, [op |-> "other.move_section"])

OtherReorderOutline(ordering) ==
    /\ other.made
    /\ \E r \in {reorder_outline(Other, ordering)} :
          CommitOther(r, other.phases, [op |-> "other.reorder_outline"])

OtherInitialize ==
    /\ other.made
    /\ other.phases < MaxPhaseCalls
    /\ \E r \in {initialize(Other)} :
          CommitOther(r, other.phases + 1, [op |-> "other.initialize"])

OtherPrepare ==
    /\ other.made
    /\ other.phases < MaxPhaseCalls
    /\ \E r \in {prepare(Other)} :
          CommitOther(r, other.phases + 1, [op |-> "other.prepare"])

-----------------------------------------------------------------------------
(* Inputs.                                                                 *)

\* The keyword bag of scripts/invoices.py, with shorter texts.
ScriptKwargs ==
    [title |-> "Report", author |-> "R", root |-> "./", show_title |-> FALSE,
     lhead |-> "Generated", rhead |-> "Billing", cfoot |-> "House",
     count_pos |-> "rfoot", toc |-> FALSE,
     packages |-> <<"booktabs", "longtable", "underscore", "graphicx">>]

\* The keyword bag of scripts/new_walkins.py, with shorter texts: as above
\* with a table of contents.
WalkinsKwargs ==
    [title |-> "Report", author |-> "R", root |-> "./", show_title |-> FALSE,
     lhead |-> "Generated", rhead |-> "Walk In", cfoot |-> "Services",
     count_pos |-> "rfoot", toc |-> TRUE,
     packages |-> <<"booktabs", "longtable", "underscore", "graphicx">>]

\* A keyword bag with an outline file and no headers.
OutlineKwargs ==
    [title |-> "Report", author |-> "R", root |-> "./", toc |-> FALSE,
     packages |-> <<>>, outline_file |-> "outline.txt"]

InitWith(kwargs) ==
    LET r == Construct(kwargs)
    IN  /\ args = r.args
        /\ sections = r.sections
        /\ outline = r.outline
        /\ doc = r.doc
        /\ glossary = r.glossary
        /\ kinds = r.kinds
        /\ other = NoOther
        /\ err = NoError
        /\ last = [op |-> "__init__"]
        /\ appended = NoSections
        /\ log = <<>>

\* Sequences over S of length at most n.
SeqUpTo(S, n) == UNION {[1..k -> S] : k \in 0..n}

\* Dicts with keys in T and values in C, as item sequences.
Dicts(T, C) ==
    {m \in SeqUpTo(T \X C, Cardinality(T)) :
        \A j, k \in DOMAIN m : j # k => m[j][1] # m[k][1]}

-----------------------------------------------------------------------------
(* Spec: the registry of two titles, with bodies.                          *)

Titles == {"A", "B"}
Contents == {"", "a", "b"}
DictContents == {"", "a"}
SmallMoves == {<<0, 1>>, <<-1, 0>>, <<2, 0>>}
SmallOrderings == {<<1, 0>>, <<0, 0>>}

Init == InitWith(ScriptKwargs)

Next ==
    \/ \E t \in Titles, c \in Contents : NewSection(t, c)
    \/ \E t \in Titles, c \in Contents : AddToSection(t, c)
    \/ \E m \in Dicts(Titles, DictContents) : SectionsFromDict(m)
    \/ \E mv \in SmallMoves : MoveSection(mv[1], mv[2])
    \/ \E o \in SmallOrderings : ReorderOutline(o)

Spec == Init /\ [][Next]_vars

-----------------------------------------------------------------------------
(* Claims on the registry, checked under Spec.                             *)

\* C2: new_section with a title that is already registered raises the
\* duplicate-title exception and leaves every title, every body and the
\* outline as they were.
C2_DuplicateCreateRejected ==
    [][(last'.op = "new_section" /\ last'.title \in DOMAIN sections)
          => /\ err' = DuplicateSection
             /\ sections' = sections
             /\ outline' = outline]_vars

\* A duplicate create was refused while the registered body differs from
\* the body offered.
C2_Witness ==
    /\ last.op = "new_section"
    /\ err = DuplicateSection
    /\ sections[last.title] # last.content
    /\ Len(outline) = 2

\* C6: every registered body is the body it was created with followed by
\* each content successfully appended to it, in call order.
C6_AppendAccumulates ==
    /\ DOMAIN appended = DOMAIN sections
    /\ \A t \in DOMAIN sections : sections[t] = appended[t]

\* A section created empty, after append "a" then append "b": body "ab";
\* the other section was created and appended to in between.
C6_Witness ==
    /\ last = [op |-> "add_to_section", title |-> "A", content |-> "b"]
    /\ err = NoError
    /\ sections["A"] = "ab"
    /\ "B" \in DOMAIN sections

\* C7: add_to_section with a title that is not registered raises the
\* unknown-section exception, registers nothing and leaves the registry and
\* the outline as they were.
C7_UnknownAppendRejected ==
    [][(last'.op = "add_to_section" /\ last'.title \notin DOMAIN sections)
          => /\ err' = UnknownSection
             /\ sections' = sections
             /\ outline' = outline]_vars

\* An append to an unregistered title was refused while another title is
\* registered.
C7_Witness ==
    /\ last.op = "add_to_section"
    /\ err = UnknownSection
    /\ last.title \notin DOMAIN sections
    /\ last.content # ""
    /\ DOMAIN sections # {}

\* C8: sections_from_dict either registers every item, in iteration order at
\* the tail of the outline, or raises and leaves registry and outline as
\* they were.
C8_CreateManyAllOrNothing ==
    [][last'.op = "sections_from_dict"
          => \/ /\ err' = NoError
                /\ outline' = outline \o Titles_of(last'.items)
                /\ \A k \in DOMAIN last'.items :
                       sections'[last'.items[k][1]] = last'.items[k][2]
             \/ /\ err' # NoError
                /\ sections' = sections
                /\ outline' = outline]_vars

-----------------------------------------------------------------------------
(* SpecOutline: the outline of three titles under every reordering.        *)

OutlineTitles == {"A", "B", "C"}

Min(a, b) == IF a <= b THEN a ELSE b

\* The orderings tried on an outline of length n: up to three indices (and
\* no more than n + 1), each from -1 (the last position) to n (one past
\* the end).
Orderings(n) == SeqUpTo(-1..n, Min(n + 1, 3))

InitOutline == InitWith(ScriptKwargs)

NextOutline ==
    \/ \E t \in OutlineTitles :
          NewSection(t, "") /\ Len(outline') <= MaxOutlineLen
    \/ \E m \in Dicts(OutlineTitles, {""}) :
          SectionsFromDict(m) /\ Len(outline') <= MaxOutlineLen
    \/ \E cur \in -(Len(outline) + 1)..Len(outline),
          new \in -1..(Len(outline) + 1) :
          MoveSection(cur, new)
    \/ \E o \in Orderings(Len(outline)) : ReorderOutline(o)

SpecOutline == InitOutline /\ [][NextOutline]_vars

\* s without its k-th element.
Without(s, k) == SubSeq(s, 1, k - 1) \o SubSeq(s, k + 1, Len(s))

\* ordering is a bijection on 0..n-1.
IsPermutation(ordering, n) ==
    /\ Len(ordering) = n
    /\ \A k \in DOMAIN ordering : 0 <= ordering[k] /\ ordering[k] < n
    /\ \A j, k \in DOMAIN ordering : j # k => ordering[j] # ordering[k]

\* C1: the outline is a permutation of the registered titles: same length,
\* every registered title in it, no other title.
C1_OutlineIsPermutation ==
    /\ Len(outline) = Cardinality(DOMAIN sections)
    /\ Range(outline) = DOMAIN sections

\* C4: move_section with currentpos outside 0..n-1 raises IndexError and
\* leaves the outline as it was.
C4_MoveOutOfRangeRejected ==
    [][(/\ last'.op = "move_section"
        /\ ~(0 <= last'.currentpos /\ last'.currentpos < Len(outline)))
          => /\ err' = IndexError
             /\ outline' = outline]_vars

\* C5: reorder_outline with a bijection on 0..n-1 sets the outline to
\* [outline[ordering[i]]]; with anything else it raises and leaves the
\* outline as it was.
C5_ReorderValidates ==
    [][last'.op = "reorder_outline"
          => IF IsPermutation(last'.ordering, Len(outline))
             THEN /\ err' = NoError
                  /\ outline' = [k \in DOMAIN outline |->
                                    outline[last'.ordering[k] + 1]]
             ELSE /\ err' # NoError
                  /\ outline' = outline]_vars

-----------------------------------------------------------------------------
(* SpecMove: move_section on outlines of up to six titles.                 *)

MoveTitles == <<"A", "B", "C", "D", "E", "F">>

InitMove == InitWith(ScriptKwargs)

NextMove ==
    \/ /\ Cardinality(DOMAIN sections) < Len(MoveTitles)
       /\ NewSection(MoveTitles[Cardinality(DOMAIN sections) + 1], "")
    \/ \E cur \in 0..(Len(outline) - 1), new \in 0..Len(outline) :
          MoveSection(cur, new)

SpecMove == InitMove /\ [][NextMove]_vars

\* C3: for currentpos in 0..n-1 and newpos >= 0, move_section succeeds, the
\* outline keeps its length, the title that was at currentpos is at
\* min(newpos, n-1), and the other titles keep their relative order; on
\* [A,B,C,D,E,F], (4,1) gives [A,E,B,C,D,F] and (1,4) gives [A,C,D,E,B,F].
C3_MoveRelocatesOne ==
    [][last'.op = "move_section"
          => /\ (/\ 0 <= last'.currentpos
                 /\ last'.currentpos < Len(outline)
                 /\ last'.newpos >= 0)
                  => LET p == Min(last'.newpos, Len(outline) - 1)
                     IN  /\ err' = NoError
                         /\ Len(outline') = Len(outline)
                         /\ outline'[p + 1] = outline[last'.currentpos + 1]
                         /\ Without(outline', p + 1)
                               = Without(outline, last'.currentpos + 1)
             /\ (outline = MoveTitles /\ last'.currentpos = 4
                                      /\ last'.newpos = 1)
                  => outline' = <<"A", "E", "B", "C", "D", "F">>
             /\ (outline = MoveTitles /\ last'.currentpos = 1
                                      /\ last'.newpos = 4)
                  => outline' = <<"A", "C", "D", "E", "B", "F">>]_vars

\* Index 4 of a six-title outline was moved to index 1.
C3_Witness ==
    /\ last = [op |-> "move_section", currentpos |-> 4, newpos |-> 1]
    /\ err = NoError
    /\ outline = <<"A", "E", "B", "C", "D", "F">>

-----------------------------------------------------------------------------
(* SpecAssemble: the phases, interleaved with registry and outline calls.  *)

InitAssemble ==
    \E kwargs \in {ScriptKwargs, WalkinsKwargs, OutlineKwargs} :
        InitWith(kwargs)

NextAssemble ==
    \/ \E t \in Titles : NewSection(t, "a")
    \/ AddToSection("A", "b") /\ Get(sections, "A") = "a"
    \/ \E o \in SmallOrderings : ReorderOutline(o)
    \/ Initialize
    \/ Prepare
    \/ Generate
    \/ AutoGenerate

SpecAssemble == InitAssemble /\ [][NextAssemble]_vars

\* C9: the section nodes a prepare call adds to the document are exactly
\* (t, body of t) for t along the outline, and every registered title is
\* among them exactly once.
C9_PrepareEmitsOutline ==
    [][last'.op = "prepare"
          => LET emitted == SubSeq(doc'.body, Len(doc.body) + 1,
                                   Len(doc'.body))
             IN  /\ err' = NoError
                 /\ emitted = [k \in DOMAIN outline |->
                                  SectionNode(outline[k],
                                              sections[outline[k]])]
                 /\ \A t \in DOMAIN sections :
                       Cardinality({k \in DOMAIN emitted :
                                       emitted[k].name = t}) = 1]_vars

\* The phases that took effect, in order.
Effective == SelectSeq(log, LAMBDA entry : entry.effect)

\* C10: the phases that take effect form a prefix of initialize, prepare,
\* generate: none before its predecessor, none twice.
C10_PhasesInOrderOnce ==
    \A k \in DOMAIN Effective :
        /\ k <= 3
        /\ Effective[k].phase = <<"initialize", "prepare", "generate">>[k]

-----------------------------------------------------------------------------
(* SpecHeaders: initialize under every setting of the six header/footer    *)
(* keywords and of count_pos.                                              *)

\* The keywords the docstring of Report.__init__ lists that are no file:
\* title, author, root, toc and packages.
BaseKwargs ==
    [title |-> "Report", author |-> "R", root |-> "./", toc |-> FALSE,
     packages |-> <<"booktabs">>]

\* Each slot keyword absent, '' or a text.
SlotSettings == UNION {[S -> {"", "H"}] : S \in SUBSET Range(Headers)}

\* count_pos absent, None, a slot, or a name that is no slot.
CountPosSettings ==
    {<<>>} \cup {[count_pos |-> c] : c \in {PyNone, "rfoot", "lhead", "page"}}

HeaderKwargs ==
    {Merge(Merge(BaseKwargs, slots), cp) :
        slots \in SlotSettings, cp \in CountPosSettings}

InitHeaders == \E kwargs \in HeaderKwargs : InitWith(kwargs)

NextHeaders ==
    \/ NewSection("A", "a")
    \/ Initialize
    \/ Prepare

SpecHeaders == InitHeaders /\ [][NextHeaders]_vars

\* A slot was designated for the page count.
CountSlotDesignated(a) ==
    "count_pos" \in DOMAIN a /\ a.count_pos \in Range(Headers)

\* C11: the first initialize of a report raises nothing in its step 1;
\* fancyhdr is among the packages it registers exactly when one of the six
\* slots is non-empty; with slots active and a count slot designated,
\* lastpage is registered and that slot holds the page-count token; with
\* slots active and no count slot designated, every slot keeps its content.
C11_HeadersResolved ==
    [][(last'.op = "initialize" /\ log = <<>>)
          => /\ err' = NoError
             /\ "fancyhdr" \in Range(doc'.packages) <=> has_headers(Self)
             /\ (has_headers(Self) /\ CountSlotDesignated(args))
                  => /\ "lastpage" \in Range(doc'.packages)
                     /\ args'.heads[args.count_pos] = PageCountToken
                     /\ \A pos \in Range(Headers) \ {args.count_pos} :
                           args'.heads[pos] = args.heads[pos]
             /\ (has_headers(Self) /\ ~CountSlotDesignated(args))
                  => args'.heads = args.heads]_vars

-----------------------------------------------------------------------------
(* SpecPackages: initialize under every package list, with and without     *)
(* headers, a page-count slot and a bibliography.                          *)

PackageNames == {"booktabs", "fancyhdr", "lastpage", "biblatex"}

\* The packages keyword: up to two names, repeats included.
PackageLists == SeqUpTo(PackageNames, 2)

PackageKwargs ==
    {Merge(Merge(Merge([BaseKwargs EXCEPT !.packages = pk], head), cp), bib) :
        pk \in PackageLists,
        head \in {<<>>, [lhead |-> "H"]},
        cp \in {[count_pos |-> "rfoot"], [count_pos |-> "page"]},
        bib \in {<<>>, [bib_file |-> "refs.bib"]}}

InitPackages == \E kwargs \in PackageKwargs : InitWith(kwargs)

NextPackages ==
    \/ NewSection("A", "a")
    \/ Initialize
    \/ Prepare

SpecPackages == InitPackages /\ [][NextPackages]_vars

\* s without the later occurrences of each element.
RECURSIVE FirstSeen(_)
FirstSeen(s) ==
    IF s = <<>> THEN <<>>
    ELSE LET init == FirstSeen(SubSeq(s, 1, Len(s) - 1))
         IN  IF s[Len(s)] \in Range(init) THEN init
             ELSE Append(init, s[Len(s)])

\* C12: the packages the first initialize of a report registers with the
\* document are the configured packages followed by the packages the engine
\* added, each name once, at its first occurrence.
C12_PackagesDeduplicated ==
    [][(last'.op = "initialize" /\ log = <<>> /\ err' = NoError)
          => /\ doc'.packages = FirstSeen(doc'.packages)
             /\ doc'.packages = FirstSeen(args'.packages)
             /\ SubSeq(args'.packages, 1, Len(args.packages))
                   = args.packages]_vars

-----------------------------------------------------------------------------
(* SpecFront: initialize under every outline file and every setting of     *)
(* hide_title and show_title.                                              *)

OutlineFileSettings ==
    {<<>>} \cup {[outline_file |-> f] :
                    f \in {"outline.txt", "blank.txt", "blanks.txt",
                           "empty.txt"}}

HideTitleSettings == {<<>>, [hide_title |-> TRUE], [hide_title |-> FALSE]}
ShowTitleSettings == {<<>>, [show_title |-> TRUE], [show_title |-> FALSE]}

FrontKwargs ==
    {Merge(Merge(Merge(BaseKwargs, of), hide), show) :
        of \in OutlineFileSettings, hide \in HideTitleSettings,
        show \in ShowTitleSettings}

InitFront == \E kwargs \in FrontKwargs : InitWith(kwargs)

NextFront ==
    \/ NewSection("C", "a")
    \/ Initialize
    \/ Prepare

SpecFront == InitFront /\ [][NextFront]_vars

\* The trimmed text of the non-empty lines, in file order.
NonEmptyLines(lines) ==
    SelectSeq([k \in DOMAIN lines |-> strip(lines[k])], LAMBDA t : t # "")

\* C13: the first initialize of a report with an outline file raises
\* nothing and appends to the outline one section per non-empty line of the
\* file, in file order, titled with the trimmed line and with an empty
\* body; blank lines add nothing.
C13_OutlineFromNonEmptyLines ==
    [][(/\ last'.op = "initialize"
        /\ log = <<>>
        /\ "outline_file" \in DOMAIN args)
          => LET titles == NonEmptyLines(
                               Files[args.root \o args.outline_file])
             IN  /\ err' = NoError
                 /\ outline' = outline \o titles
                 /\ DOMAIN sections' = DOMAIN sections \cup Range(titles)
                 /\ \A k \in DOMAIN titles : sections'[titles[k]] = ""]_vars

\* The four commands _gen_title registers.
TitleCommands(d) ==
    {c \in Range(d.preamble) : c.name \in {"title", "author", "date"}}
        \cup {c \in Range(d.body) : c.name = "maketitle"}

\* C14: the first initialize of a report registers title, author, date and
\* the title block unless hide_title is set to True; when hide_title is
\* absent or False they are registered, whatever show_title is.
C14_TitleUnlessHidden ==
    [][(last'.op = "initialize" /\ log = <<>>)
          => IF "hide_title" \in DOMAIN args /\ args.hide_title = TRUE
             THEN TitleCommands(doc') = {}
             ELSE TitleCommands(doc') =
                      {Command("title", args.title),
                       Command("author", args.author),
                       Command("date", "\\today"),
                       Command("maketitle", "")}]_vars

-----------------------------------------------------------------------------
(* SpecGlossary: _load_glossary under every glossary file and kind set.    *)

KindSets == {<<>>, <<"lemma">>, <<"theorem">>, <<"lemma", "theorem">>}

GlossaryFileSettings ==
    {<<>>} \cup {[glossary_file |-> f] :
                    f \in {"", "gloss.txt", "two.txt", "none.txt"}}

GlossaryKwargs ==
    {Merge(Merge(BaseKwargs, [refs |-> prefix]), gf) :
        prefix \in {"Sec", "thm"}, gf \in GlossaryFileSettings}

InitGlossary == \E kwargs \in GlossaryKwargs : InitWith(kwargs)

NextGlossary ==
    \/ \E ks \in KindSets : SetKinds(ks)
    \/ LoadGlossary
    \/ NewSection("A", "a")

SpecGlossary == InitGlossary /\ [][NextGlossary]_vars

\* A glossary source is configured: glossary_file is given and not empty.
GlossaryConfigured(a) ==
    "glossary_file" \in DOMAIN a /\ Truthy(a.glossary_file)

\* The blocks of the configured source whose kind is recognised.
Recognized(a, ks) ==
    LET blocks == GlossaryBlocks[a.root \o a.glossary_file]
    IN  {blocks[k] : k \in {j \in DOMAIN blocks :
                               blocks[j].kind \in Range(ks)}}

\* The key of a block: lower(prefix) + ':' + the trimmed label.
KeyOf(a, block) == lower(a.refs) \o ":" \o strip(block.label)

\* C15: _load_glossary on a configured source raises nothing and leaves a
\* glossary with one entry per block of a recognised kind, keyed
\* lower(prefix) + ':' + trimmed label and holding the block's kind and
\* trimmed body; every entry's kind is a recognised kind; 'lemma foo\nbar
\* baz\nEND' with kinds {lemma} and prefix 'Sec' gives
\* {'sec:foo': {kind: lemma, body: 'bar baz'}}.
C15_GlossaryBuilt ==
    [][(last'.op = "load_glossary" /\ GlossaryConfigured(args))
          => /\ err' = NoError
             /\ DOMAIN glossary' =
                    {KeyOf(args, b) : b \in Recognized(args, kinds)}
             /\ \A b \in Recognized(args, kinds) :
                    glossary'[KeyOf(args, b)] =
                        [kind |-> b.kind, body |-> strip(b.body)]
             /\ \A key \in DOMAIN glossary' :
                    glossary'[key].kind \in Range(kinds)
             /\ (/\ args.glossary_file = "gloss.txt"
                 /\ kinds = <<"lemma">>
                 /\ args.refs = "Sec")
                  => glossary' = [key \in {"sec:foo"} |->
                                     [kind |-> "lemma",
                                      body |-> "bar baz"]]]_vars

\* C16: _load_glossary without a configured source raises the
\* glossary-not-set exception and leaves the glossary as it was; with a
\* configured source holding no block of a recognised kind it raises nothing
\* and leaves an empty glossary.
C16_GlossaryNotConfigured ==
    [][last'.op = "load_glossary"
          => IF ~GlossaryConfigured(args)
             THEN err' = GlossaryNotSet /\ glossary' = glossary
             ELSE Recognized(args, kinds) = {}
                      => err' = NoError /\ glossary' = NoGlossary]_vars

-----------------------------------------------------------------------------
(* SpecSections: every public operation on a report with an outline file   *)
(* and a glossary.                                                         *)

SectionsKwargs ==
    Merge(BaseKwargs, [refs |-> "Sec", glossary_file |-> "gloss.txt",
                       outline_file |-> "outline.txt"])

InitSections == InitWith(SectionsKwargs)

\* The glossary is built, from the kinds set, before the first section
\* exists; initialize runs once and prepare once.
NextSections ==
    \/ \E t \in Titles : NewSection(t, "a")
    \/ AddToSection("A", "b")
    \/ SectionsFromDict(<<<<"B", "b">>, <<"A", "a">>>>)
    \/ \E f \in DOMAIN SectionFiles : LoadSectionFromFile("A", f)
    \/ \E mv \in SmallMoves : MoveSection(mv[1], mv[2])
    \/ \E o \in SmallOrderings : ReorderOutline(o)
    \/ SetKinds(<<"lemma">>) /\ sections = NoSections /\ log = <<>>
    \/ LoadGlossary /\ kinds # <<>> /\ sections = NoSections /\ log = <<>>
    \/ Initialize /\ log = <<>>
    \/ Prepare /\ \A k \in DOMAIN log : log[k].phase # "prepare"

SpecSections == InitSections /\ [][NextSections]_vars

\* The text holds a reference token: a bracketed label.
HasToken(text) == Find(text, "[", 1) # 0

\* C17: load_section_from_file on a text without a reference token raises
\* nothing and stores the text unchanged (as the new section's body, or
\* after the body the section has); on a text with a token whose label is
\* not in the glossary it raises and neither creates nor extends a section.
C17_ResolveOrFail ==
    [][last'.op = "load_section_from_file"
          => LET text == SectionFiles[last'.filename]
                 title == last'.title
             IN  IF HasToken(text)
                 THEN /\ err' # NoError
                      /\ sections' = sections
                      /\ outline' = outline
                 ELSE /\ err' = NoError
                      /\ title \in DOMAIN sections'
                      /\ sections'[title] =
                            (IF title \in DOMAIN sections
                             THEN sections[title] ELSE "") \o text]_vars

\* a is a prefix of b.
IsPrefix(a, b) == Len(a) <= Len(b) /\ SubSeq(b, 1, Len(a)) = a

\* C19: no step removes a registered title, and after every step each
\* registered body has the body before the step as a prefix.
C19_SectionsAppendOnly ==
    [][/\ DOMAIN sections \subseteq DOMAIN sections'
       /\ \A t \in DOMAIN sections :
              IsPrefix(sections[t], sections'[t])]_vars

\* After initialize loaded the outline file, a body that held "a" was
\* appended "b".
C19_Witness ==
    /\ last = [op |-> "add_to_section", title |-> "A", content |-> "b"]
    /\ err = NoError
    /\ sections["A"] = "ab"
    /\ log # <<>>
    /\ "B" \in DOMAIN sections

\* C20: move_section and reorder_outline, raising or not, leave every title
\* and body as they were; an add_to_section that succeeds leaves the outline
\* and every other body as they were; none of new_section, add_to_section,
\* move_section, reorder_outline changes the glossary.
C20_MutatorsFrame ==
    [][/\ last'.op \in {"move_section", "reorder_outline"}
            => sections' = sections
       /\ (last'.op = "add_to_section" /\ err' = NoError)
            => /\ outline' = outline
               /\ DOMAIN sections' = DOMAIN sections
               /\ \A t \in DOMAIN sections \ {last'.title} :
                      sections'[t] = sections[t]
       /\ last'.op \in {"new_section", "add_to_section", "move_section",
                        "reorder_outline"}
            => glossary' = glossary]_vars

\* With a glossary built and two sections with bodies, a reordering that
\* repeats a title was accepted.
C20_Witness ==
    /\ last = [op |-> "reorder_outline", ordering |-> <<0, 0>>]
    /\ err = NoError
    /\ glossary # NoGlossary
    /\ outline = <<"B", "B">>
    /\ Get(sections, "A") = "ab"
    /\ Get(sections, "B") = "b"

-----------------------------------------------------------------------------
(* SpecTwo: two reports, the second constructed at any moment, from its    *)
(* own package list or from the list given to the first.                   *)

TwoKwargs ==
    {Merge(BaseKwargs, [lhead |-> "H", count_pos |-> "rfoot"]),
     Merge(BaseKwargs, [bib_file |-> "refs.bib"])}

InitTwo == \E kwargs \in TwoKwargs : InitWith(kwargs)

\* Each report runs initialize once, as its first phase.
NextTwo ==
    \/ \E kwargs \in TwoKwargs, shares \in BOOLEAN :
          ConstructOther(kwargs, shares)
    \/ NewSection("A", "a")
    \/ AddToSection("A", "b")
    \/ MoveSection(0, 1)
    \/ ReorderOutline(<<0>>)
    \/ Initialize /\ log = <<>>
    \/ Prepare /\ Len(log) = 1
    \/ \E t \in Titles : OtherNewSection(t, "a")
    \/ OtherAddToSection("A", "b")
    \/ OtherMoveSection(0, 1)
    \/ OtherReorderOutline(<<0>>)
    \/ OtherInitialize /\ other.phases = 0
    \/ OtherPrepare /\ other.phases = 1

SpecTwo == InitTwo /\ [][NextTwo]_vars

OtherOps ==
    {"other.__init__", "other.new_section", "other.add_to_section",
     "other.move_section", "other.reorder_outline", "other.initialize",
     "other.prepare"}

\* C18: a step of the second report, its construction included, leaves the
\* first report's sections, outline and keyword bag (headers and package
\* list included) as they were, and a step of the first report leaves the
\* second report's as they were.
C18_InstancesIsolated ==
    [][IF last'.op \in OtherOps
       THEN /\ sections' = sections
            /\ outline' = outline
            /\ args' = args
       ELSE other.made
              => /\ other'.sections = other.sections
                 /\ other'.outline = other.outline
                 /\ other'.args = other.args]_vars

====
